---- MODULE Spec2Model ----
(***************************************************************************)
(* A model of BitVec (src/src/lib.rs): a growable bit vector kept in a     *)
(* manually allocated byte region.                                         *)
(*                                                                         *)
(* The storage region is the sequence mem of cap bytes (mem[k+1] is the    *)
(* byte at offset k).  A read at an offset >= cap is outside the region:   *)
(* it yields any byte of Uninit; a write there does not change the         *)
(* region.  Either one is recorded in oob.  Bytes that alloc/realloc hand  *)
(* out without initialising hold any byte of Uninit.                       *)
(*                                                                         *)
(* Every method is an operator from the buffer (a record of the struct's   *)
(* fields) to the set of its possible outcomes [st, ret, oob]; the         *)
(* actions apply them to the variables.                                    *)
(***************************************************************************)
EXTENDS Integers, Sequences, FiniteSets

VARIABLES cap, len, byte_idx, bit_idx, mem,   \* the fields of BitVec
          op, arg, ret, oob,                  \* the last call, its result
          nops                                \* calls made so far

vars == <<cap, len, byte_idx, bit_idx, mem, op, arg, ret, oob, nops>>

(* ------------------------------ bounds -------------------------------- *)
MaxOps == 3

\* bit indices handed to get_bit, set_bit, next_set_bit, set_read_position:
\* the first and last bit of a byte, the first of the next, one inside it
Indices == {0, 7, 8, 10}
Bools == {FALSE, TRUE}
\* byte sequences handed to from()
FromData == {<<106, 160>>, <<0, 255>>, <<255, 255>>, <<128>>}
\* capacities (in bits) handed to with_capacity()
CapHints == {3, 8}
\* bytes handed to push_byte()
PushBytes == {0, 255}
\* what a byte that was never written may hold
Uninit == {0, 255}

(* ------------------------------ bytes --------------------------------- *)
None == -1

Max(a, b) == IF a >= b THEN a ELSE b
Min(a, b) == IF a <= b THEN a ELSE b
DivCeil(a, b) == (a + b - 1) \div b
B2N(b) == IF b THEN 1 ELSE 0

\* (byte >> k) & 1
BitAt(byte, k) == (byte \div (2 ^ k)) % 2
\* byte | (1 << k)
OrBit(byte, k) == IF BitAt(byte, k) = 1 THEN byte ELSE byte + 2 ^ k
\* byte & !(1 << k)
ClearBit(byte, k) == IF BitAt(byte, k) = 1 THEN byte - 2 ^ k ELSE byte
\* a & b and a | b on u8, bit by bit from bit k up
RECURSIVE BitAndFrom(_, _, _)
BitAndFrom(a, b, k) ==
    IF k = 8 THEN 0
    ELSE BitAt(a, k) * BitAt(b, k) * 2 ^ k + BitAndFrom(a, b, k + 1)
RECURSIVE BitOrFrom(_, _, _)
BitOrFrom(a, b, k) ==
    IF k = 8 THEN 0
    ELSE Max(BitAt(a, k), BitAt(b, k)) * 2 ^ k + BitOrFrom(a, b, k + 1)
BitAnd(a, b) == BitAndFrom(a, b, 0)
BitOr(a, b) == BitOrFrom(a, b, 0)
\* !a on u8
BitNot(a) == 255 - a
\* 0xFFu8.wrapping_shl(k)
ShlFF(k) == (255 * 2 ^ k) % 256
\* u8::trailing_zeros of a non-zero byte
TrailingZeros(byte) == CHOOSE k \in 0..7 :
    BitAt(byte, k) = 1 /\ \A j \in 0..(k - 1) : BitAt(byte, j) = 0

(* ------------------------------ storage ------------------------------- *)
Self == [cap |-> cap, len |-> len, byte_idx |-> byte_idx,
         bit_idx |-> bit_idx, mem |-> mem]

Out(s, r, b) == [st |-> s, ret |-> r, oob |-> b]

\* *ptr.add(off), read: the byte stored there, or u when off is outside
Load(s, off, u) == IF off < s.cap THEN s.mem[off + 1] ELSE u
\* *ptr.add(off) = byte
Store(s, off, byte) ==
    IF off < s.cap THEN [s EXCEPT !.mem[off + 1] = byte] ELSE s

New == [cap |-> 0, len |-> 0, byte_idx |-> 0, bit_idx |-> 0, mem |-> <<>>]

WithCapacity(bits) ==
    LET bytes == DivCeil(bits, 8)
    IN [cap |-> bytes, len |-> bits, byte_idx |-> 0, bit_idx |-> 0,
        mem |-> [k \in 1..bytes |-> 0]]

From(data) ==
    [cap |-> Len(data), len |-> Len(data) * 8, byte_idx |-> 0, bit_idx |-> 0,
     mem |-> data]

\* the region regrown to new_cap bytes: the old bytes kept, the new ones
\* whatever the allocator left there
Realloc(s, new_cap) ==
    {[s EXCEPT !.cap = new_cap, !.mem = s.mem \o fresh] :
        fresh \in [1..(new_cap - s.cap) -> Uninit]}

Grow(s, min_additional_bytes) ==
    LET new_cap == IF s.cap = 0
                   THEN Max(min_additional_bytes, 1)
                   ELSE Max(s.cap * 2, s.cap + min_additional_bytes)
    IN Realloc(s, new_cap)

\* the inline "grow by one" of push_bit and push_byte
GrowByOne(s) == Realloc(s, IF s.cap = 0 THEN 1 ELSE s.cap + 1)

(* ------------------------------ methods ------------------------------- *)
\* get_bit(index), for index < len (beyond it the call panics)
GetBit(s, index) ==
    LET byte_index == index \div 8
        bit_index == index % 8
    IN {Out(s, BitAt(Load(s, byte_index, u), bit_index), byte_index >= s.cap) :
            u \in Uninit}

\* set_bit writing the bit counted from the other end of the byte
SetBitMsb(s, index, value) ==
    LET byte_index == index \div 8
        bit_index == 7 - (index % 8)
        grown == IF byte_index >= s.cap
                 THEN Grow(s, byte_index - s.cap + 1)
                 ELSE {s}
        Written(g, u) ==
            LET byte == Load(g, byte_index, u)
            IN Store(g, byte_index,
                     IF value THEN OrBit(byte, bit_index)
                              ELSE ClearBit(byte, bit_index))
    IN {Out([Written(g, u) EXCEPT !.len = Max(g.len, index + 1)],
            None, byte_index >= g.cap) : g \in grown, u \in Uninit}

SetBit(s, index, value) ==
    LET byte_index == index \div 8
        bit_index == index % 8
        grown == IF byte_index >= s.cap
                 THEN Grow(s, byte_index - s.cap + 1)
                 ELSE {s}
        Written(g, u) ==
            LET byte == Load(g, byte_index, u)
            IN Store(g, byte_index,
                     IF value THEN OrBit(byte, bit_index)
                              ELSE ClearBit(byte, bit_index))
    IN {Out([Written(g, u) EXCEPT !.len = Max(g.len, index + 1)],
            None, byte_index >= g.cap) : g \in grown, u \in Uninit}

PopBit(s) ==
    IF s.len = 0 THEN {Out(s, None, FALSE)}
    ELSE LET Retract(t) ==
                 IF t.bit_idx = 0
                 THEN IF t.byte_idx > 0
                      THEN [t EXCEPT !.byte_idx = t.byte_idx - 1, !.bit_idx = 7]
                      ELSE t
                 ELSE [t EXCEPT !.bit_idx = t.bit_idx - 1]
         IN {Out([Retract(w.st) EXCEPT !.len = w.st.len - 1],
                 g.ret, g.oob \/ w.oob) :
                g \in GetBit(s, s.len - 1), w \in SetBit(s, s.len - 1, FALSE)}

RECURSIVE PopByteBits(_, _, _)
\* the loop of pop_byte, for the i-s below n
PopByteBits(s, n, u) ==
    IF n = 0 THEN 0
    ELSE LET i == n - 1
             byte_pos == (s.len - 1 - i) \div 8
             bit_pos == 7 - ((s.len - 1 - i) % 8)
             byte == Load(s, byte_pos, u)
         IN BitAt(byte, bit_pos) * 2 ^ i + PopByteBits(s, n - 1, u)

PopByte(s) ==
    IF s.len = 0 THEN {Out(s, None, FALSE)}
    ELSE LET bits_to_pop == Min(8, s.len)
         IN {Out([s EXCEPT !.len = s.len - bits_to_pop],
                 PopByteBits(s, bits_to_pop, u),
                 (s.len - 1) \div 8 >= s.cap) : u \in Uninit}

PopFullByte(s) ==
    IF s.len < 8 THEN {Out(s, None, FALSE)}
    ELSE IF s.bit_idx # 7 THEN {Out(s, None, FALSE)}
    ELSE LET t == IF s.byte_idx > 0
                  THEN [s EXCEPT !.byte_idx = s.byte_idx - 1]
                  ELSE [s EXCEPT !.bit_idx = 0]
         IN {Out([t EXCEPT !.len = s.len - 8],
                 Load(s, s.byte_idx, u), s.byte_idx >= s.cap) : u \in Uninit}

PushBit(s, bit) ==
    LET byte_offset == s.len \div 8
        bit_offset == s.len % 8
        grown == IF bit_offset = 0 /\ byte_offset >= s.cap
                 THEN GrowByOne(s)
                 ELSE {s}
        Written(g, u) ==
            LET z == IF bit_offset = 0 THEN Store(g, byte_offset, 0) ELSE g
                byte == Load(z, byte_offset, u)
            IN Store(z, byte_offset,
                     IF bit THEN OrBit(byte, bit_offset)
                            ELSE ClearBit(byte, bit_offset))
    IN {Out([Written(g, u) EXCEPT !.len = s.len + 1],
            None, byte_offset >= g.cap) : g \in grown, u \in Uninit}

PushByte(s, byte) ==
    LET grown == IF s.cap * 8 = s.len THEN GrowByOne(s) ELSE {s}
        byte_offset == s.len \div 8
    IN {Out([Store(g, byte_offset, byte) EXCEPT !.len = s.len + 8],
            None, byte_offset >= g.cap) : g \in grown}

\* one seq_read, an outside byte reading as u
SeqRead1(s, u) ==
    IF s.byte_idx >= (s.len + 7) \div 8 THEN Out(s, None, FALSE)
    ELSE LET bit == BitAt(Load(s, s.byte_idx, u), 7 - s.bit_idx)
             t == IF s.bit_idx + 1 = 8
                  THEN [s EXCEPT !.byte_idx = s.byte_idx + 1, !.bit_idx = 0]
                  ELSE [s EXCEPT !.bit_idx = s.bit_idx + 1]
         IN Out(t, bit, s.byte_idx >= s.cap)

SeqRead(s) == {SeqRead1(s, u) : u \in Uninit}

RECURSIVE ReadByteLoop(_, _, _, _, _)
\* the loop of read_byte with n rounds left
ReadByteLoop(s, n, byte, o, u) ==
    IF n = 0 THEN Out(s, byte, o)
    ELSE LET r == SeqRead1(s, u)
         IN IF r.ret = None THEN Out(r.st, None, o)
            ELSE ReadByteLoop(r.st, n - 1, ((byte * 2) % 256) + r.ret,
                              o \/ r.oob, u)

ReadByte(s) == {ReadByteLoop(s, 8, 0, FALSE, u) : u \in Uninit}

ResetSeqRead(s) == [s EXCEPT !.byte_idx = 0, !.bit_idx = 0]

SetReadPosition(s, bit_position) ==
    IF bit_position >= s.len THEN Out(s, 0, FALSE)
    ELSE Out([s EXCEPT !.byte_idx = bit_position \div 8,
                       !.bit_idx = bit_position % 8], 1, FALSE)

NextSetBit(s, start_bit) ==
    IF start_bit >= s.len THEN {Out(s, None, FALSE)}
    ELSE LET start_byte == start_bit \div 8
             start_bit_offset == start_bit % 8
             Rest == {k \in (start_byte + 1)..(s.cap - 1) : s.mem[k + 1] # 0}
             Scan ==
                 IF Rest = {} THEN None
                 ELSE LET k == CHOOSE k \in Rest : \A j \in Rest : k <= j
                          bit_pos == k * 8 + TrailingZeros(s.mem[k + 1])
                      IN IF bit_pos < s.len THEN bit_pos ELSE None
             First(u) ==
                 LET masked_first_byte ==
                         BitAnd(Load(s, start_byte, u), ShlFF(start_bit_offset))
                 IN IF masked_first_byte # 0
                    THEN start_byte * 8 + TrailingZeros(masked_first_byte)
                    ELSE Scan
         IN {Out(s, First(u), start_byte >= s.cap) : u \in Uninit}

\* fill indexes a slice of cap bytes, so an index outside it panics
FillPanics(s) ==
    \/ s.len \div 8 > s.cap
    \/ s.len % 8 > 0 /\ s.len \div 8 >= s.cap

Fill(s, value) ==
    LET fill_byte == IF value THEN 255 ELSE 0
        complete_bytes == s.len \div 8
        remaining_bits == s.len % 8
        whole == [s EXCEPT !.mem = [k \in 1..s.cap |->
                      IF k <= complete_bytes THEN fill_byte ELSE s.mem[k]]]
        ones == 2 ^ remaining_bits - 1
        part == IF remaining_bits > 0
                THEN Store(whole, complete_bytes,
                        IF value
                        THEN BitOr(whole.mem[complete_bytes + 1], ones)
                        ELSE BitAnd(whole.mem[complete_bytes + 1], BitNot(ones)))
                ELSE whole
    IN [part EXCEPT !.byte_idx = 0, !.bit_idx = 0]

IsZero(s) == \A k \in 0..(s.cap - 1) : s.mem[k + 1] = 0

\* the bytes both operands have, by their lengths
MinCap(s, other) == Min(DivCeil(s.len, 8), DivCeil(other.len, 8))

\* self.diff(other): *self_byte &= !(*other_byte)
Diff(s, other) ==
    LET min_cap == MinCap(s, other)
    IN {Out([s EXCEPT !.mem = [k \in 1..s.cap |->
                 IF k <= min_cap
                 THEN BitAnd(s.mem[k], BitNot(Load(other, k - 1, u)))
                 ELSE s.mem[k]]],
            None, min_cap > s.cap \/ min_cap > other.cap) : u \in Uninit}

\* self.intersec(other): *self_byte &= *other_byte, then the bytes of self
\* beyond other's capacity are cleared
Intersec(s, other) ==
    LET min_cap == MinCap(s, other)
    IN {Out([s EXCEPT !.mem = [k \in 1..s.cap |->
                 IF s.cap > other.cap /\ k > other.cap THEN 0
                 ELSE IF k <= min_cap
                      THEN BitAnd(s.mem[k], Load(other, k - 1, u))
                      ELSE s.mem[k]]],
            None, min_cap > s.cap \/ min_cap > other.cap) : u \in Uninit}

\* self.union(other): *self_byte |= *other_byte
Union(s, other) ==
    LET min_cap == MinCap(s, other)
    IN {Out([s EXCEPT !.mem = [k \in 1..s.cap |->
                 IF k <= min_cap
                 THEN BitOr(s.mem[k], Load(other, k - 1, u))
                 ELSE s.mem[k]]],
            None, min_cap > s.cap \/ min_cap > other.cap) : u \in Uninit}

\* self.clone(): a new buffer grown to cap bytes, the bytes and the length
\* copied, the cursor at the start
Clone(s) ==
    IF s.cap > 0
    THEN {[g EXCEPT !.mem = s.mem, !.len = s.len] : g \in Grow(New, s.cap)}
    ELSE {New}

(* ------------------------------ the machine --------------------------- *)
\* The second operands handed to diff, intersec and union, each built by
\* calls of the methods above:
\*   1  from([0xFF, 0xFF]): 16 bits, all set
\*   2  from([0x00, 0xFF]), pop_byte(): 8 bits, the popped byte still stored
\*   3  from([0x6A, 0xA0]), pop_byte(), set_bit(10, false), pop_byte():
\*      3 bits, the popped bits still stored in the partial byte
OtherFull == From(<<255, 255>>)
OtherPopped == CHOOSE b \in {o.st : o \in PopByte(From(<<0, 255>>))} : TRUE
OtherPartial ==
    CHOOSE b \in {q.st : q \in UNION {PopByte(w.st) :
                       w \in UNION {SetBit(p.st, 10, FALSE) :
                           p \in PopByte(From(<<106, 160>>))}}} : TRUE
Others == <<OtherFull, OtherPopped, OtherPartial>>

\* the buffer as one of the three constructors leaves it
Built(s, name) ==
    /\ cap = s.cap
    /\ len = s.len
    /\ byte_idx = s.byte_idx
    /\ bit_idx = s.bit_idx
    /\ mem = s.mem
    /\ op = name

Init ==
    /\ \/ Built(New, "new") /\ arg = <<0, 0>>
       \/ \E n \in CapHints :
              Built(WithCapacity(n), "with_capacity") /\ arg = <<n, 0>>
       \/ \E d \in FromData : Built(From(d), "from") /\ arg = <<0, 0>>
    /\ ret = None
    /\ oob = FALSE
    /\ nops = 0

\* the call name(a) ended in outcome o
Apply(o, name, a) ==
    /\ cap' = o.st.cap
    /\ len' = o.st.len
    /\ byte_idx' = o.st.byte_idx
    /\ bit_idx' = o.st.bit_idx
    /\ mem' = o.st.mem
    /\ op' = name
    /\ arg' = a
    /\ ret' = o.ret
    /\ oob' = o.oob
    /\ nops' = nops + 1

DoGetBit ==
    /\ nops < MaxOps
    /\ \E i \in Indices : i < len /\
           \E o \in GetBit(Self, i) : Apply(o, "get_bit", <<i, 0>>)

DoSetBit ==
    /\ nops < MaxOps
    /\ \E i \in Indices, v \in Bools :
           \E o \in SetBit(Self, i, v) : Apply(o, "set_bit", <<i, B2N(v)>>)

DoPopBit ==
    /\ nops < MaxOps
    /\ \E o \in PopBit(Self) : Apply(o, "pop_bit", <<0, 0>>)

DoPopByte ==
    /\ nops < MaxOps
    /\ \E o \in PopByte(Self) : Apply(o, "pop_byte", <<0, 0>>)

DoPopFullByte ==
    /\ nops < MaxOps
    /\ \E o \in PopFullByte(Self) : Apply(o, "pop_full_byte", <<0, 0>>)

DoPushBit ==
    /\ nops < MaxOps
    /\ \E v \in Bools :
           \E o \in PushBit(Self, v) : Apply(o, "push_bit", <<0, B2N(v)>>)

DoPushByte ==
    /\ nops < MaxOps
    /\ \E b \in PushBytes :
           \E o \in PushByte(Self, b) : Apply(o, "push_byte", <<0, b>>)

DoSeqRead ==
    /\ nops < MaxOps
    /\ \E o \in SeqRead(Self) : Apply(o, "seq_read", <<0, 0>>)

DoReadByte ==
    /\ nops < MaxOps
    /\ \E o \in ReadByte(Self) : Apply(o, "read_byte", <<0, 0>>)

DoResetSeqRead ==
    /\ nops < MaxOps
    /\ Apply(Out(ResetSeqRead(Self), None, FALSE), "reset_seq_read", <<0, 0>>)

DoSetReadPosition ==
    /\ nops < MaxOps
    /\ \E p \in Indices :
           Apply(SetReadPosition(Self, p), "set_read_position", <<p, 0>>)

DoNextSetBit ==
    /\ nops < MaxOps
    /\ \E i \in Indices :
           \E o \in NextSetBit(Self, i) : Apply(o, "next_set_bit", <<i, 0>>)

DoFill ==
    /\ nops < MaxOps
    /\ \E v \in Bools : ~FillPanics(Self) /\
           Apply(Out(Fill(Self, v), None, FALSE), "fill", <<0, B2N(v)>>)

DoIsZero ==
    /\ nops < MaxOps
    /\ Apply(Out(Self, B2N(IsZero(Self)), FALSE), "is_zero", <<0, 0>>)

DoDiff ==
    /\ nops < MaxOps
    /\ \E k \in DOMAIN Others :
           \E o \in Diff(Self, Others[k]) : Apply(o, "diff", <<k, 0>>)

DoIntersec ==
    /\ nops < MaxOps
    /\ \E k \in DOMAIN Others :
           \E o \in Intersec(Self, Others[k]) : Apply(o, "intersec", <<k, 0>>)

DoUnion ==
    /\ nops < MaxOps
    /\ \E k \in DOMAIN Others :
           \E o \in Union(Self, Others[k]) : Apply(o, "union", <<k, 0>>)

DoClone ==
    /\ nops < MaxOps
    /\ \E c \in Clone(Self) : Apply(Out(c, None, FALSE), "clone", <<0, 0>>)

Next ==
    \/ DoGetBit
    \/ DoSetBit
    \/ DoPopBit
    \/ DoPopByte
    \/ DoPopFullByte
    \/ DoPushBit
    \/ DoPushByte
    \/ DoSeqRead
    \/ DoReadByte
    \/ DoResetSeqRead
    \/ DoSetReadPosition
    \/ DoNextSetBit
    \/ DoFill
    \/ DoIsZero
    \/ DoDiff
    \/ DoIntersec
    \/ DoUnion
    \/ DoClone

Spec == Init /\ [][Next]_vars

TypeOK ==
    /\ cap \in Nat /\ len \in Nat
    /\ byte_idx \in Nat /\ bit_idx \in 0..7
    /\ mem \in Seq(0..255) /\ Len(mem) = cap

(* ------------------------------ claims -------------------------------- *)
\* the buffer after the step
SelfNext == [cap |-> cap', len |-> len', byte_idx |-> byte_idx',
             bit_idx |-> bit_idx', mem |-> mem']

\* what get_bit(i) can return on s: one value when the byte is in the region
BitVals(s, i) == {g.ret : g \in GetBit(s, i)}

\* C1: in every reachable state 0 <= length_bits <= capacity_bytes * 8.
C1_LengthWithinCapacity == 0 <= len /\ len <= cap * 8

\* C2: no operation reads or writes the region at an offset >= capacity_bytes.
C2_AccessesInsideRegion == ~oob

\* C3: on a buffer built by from(bytes), get_bit(i) is bit (7 - i mod 8),
\* counted from the least significant end, of byte i div 8.
C3_GetBitMsbFirst ==
    [][(op = "from" /\ op' = "get_bit")
          => ret' = BitAt(mem[(arg'[1] \div 8) + 1], 7 - (arg'[1] % 8))]_vars

\* C4: for every reachable buffer, every i < length_bits and both values v,
\* set_bit(i, v) leaves length_bits as it was and get_bit(i) then returns v.
C4_SetThenGet ==
    \A i \in 0..(len - 1), v \in Bools :
        \A o \in SetBit(Self, i, v) :
            /\ o.st.len = len
            /\ \A g \in GetBit(o.st, i) : g.ret = B2N(v)

\* a set_bit below the length has just run and the bit reads back as written
C4_Witness ==
    /\ op = "set_bit"
    /\ arg[1] + 1 < len
    /\ BitVals(Self, arg[1]) = {arg[2]}

\* C5: push_bit(v) immediately followed by pop_bit() returns v and leaves
\* length_bits as it was before the push.
C5_PushThenPop ==
    [][op' = "push_bit"
          => \A q \in PopBit(SelfNext) :
                 q.ret = arg'[2] /\ q.st.len = len]_vars

\* C6: push_byte(b) on a buffer of length n gives length n + 8 and keeps
\* every bit at an index below n.
C6_PushByteKeepsBits ==
    [][op' = "push_byte"
          => /\ len' = len + 8
             /\ \A i \in 0..(len - 1) :
                    BitVals(SelfNext, i) \cap BitVals(Self, i) # {}]_vars

\* C7: on bytes [0x6A, 0xA0] with length_bits 11, pop_byte() returns 85 and
\* leaves 3 bits, a second pop_byte() returns 96 and leaves none; and every
\* pop_byte takes min(8, length_bits) off the length.
C7_PopByteScenario ==
    [][op' = "pop_byte"
          => /\ len' = len - Min(8, len)
             /\ (mem = <<106, 160>> /\ len = 11)
                   => /\ ret' = 85
                      /\ len' = 3
                      /\ \A q \in PopByte(SelfNext) :
                             q.ret = 96 /\ q.st.len = 0]_vars

\* C8: set_bit(index, v) with index >= length_bits makes the length
\* index + 1 and every bit from the old length up to index reads false.
C8_SetBitZeroFillsGap ==
    [][(op' = "set_bit" /\ arg'[1] >= len)
          => /\ len' = arg'[1] + 1
             /\ \A j \in len..(arg'[1] - 1) : 0 \in BitVals(SelfNext, j)]_vars

\* C9: next_set_bit(s) returns the smallest k with s <= k < length_bits and
\* get_bit(k) true, and nothing when there is none.
C9_NextSetBitIsSmallest ==
    op = "next_set_bit"
       => IF ret = None
          THEN \A k \in arg[1]..(len - 1) : 0 \in BitVals(Self, k)
          ELSE /\ arg[1] <= ret
               /\ ret < len
               /\ 1 \in BitVals(Self, ret)
               /\ \A k \in arg[1]..(ret - 1) : 0 \in BitVals(Self, k)

\* C10: is_zero() is true exactly when every bit below length_bits is false.
C10_IsZeroOverLength ==
    op = "is_zero"
       => IF ret = 1
          THEN \A i \in 0..(len - 1) : 0 \in BitVals(Self, i)
          ELSE \E i \in 0..(len - 1) : 1 \in BitVals(Self, i)

\* get_read_position(): the cursor as a bit position
Pos(s) == s.byte_idx * 8 + s.bit_idx

\* C11: seq_read() returns nothing and changes nothing when the cursor
\* position is >= length_bits; otherwise it returns a bit and moves the
\* cursor on by one.
C11_SeqReadStopsAtLength ==
    \A o \in SeqRead(Self) :
        IF Pos(Self) >= len
        THEN o.ret = None /\ o.st = Self
        ELSE o.ret \in {0, 1} /\ Pos(o.st) = Pos(Self) + 1

\* C12: in every reachable state byte_index * 8 + bit_index <= length_bits.
C12_CursorWithinLength == Pos(Self) <= len

\* C13: with_capacity(n) gives an empty buffer of at least ceil(n/8) bytes,
\* so the first push_bit stores its value at index 0.
C13_WithCapacityIsEmpty ==
    [][(op = "with_capacity" /\ op' = "push_bit")
          => /\ len = 0
             /\ cap >= DivCeil(arg[1], 8)
             /\ BitVals(SelfNext, 0) = {arg'[2]}]_vars

\* C14: intersection and difference give length min(length(a), length(b));
\* union gives max(length(a), length(b)) and bit i = a_i OR b_i, a bit
\* beyond an operand's own length counting as zero.
C14_SetAlgebraLengths ==
    [][LET b == Others[arg'[1]]
           BitOrZero(s, i) == IF i < s.len THEN BitVals(s, i) ELSE {0}
       IN /\ op' \in {"intersec", "diff"} => len' = Min(len, b.len)
          /\ op' = "union"
                => /\ len' = Max(len, b.len)
                   /\ \A i \in 0..(len' - 1) :
                          \E x \in BitOrZero(Self, i), y \in BitOrZero(b, i) :
                              Max(x, y) \in BitVals(SelfNext, i)]_vars

\* C15: seq_read() with the cursor at position p < length_bits returns 1
\* exactly when get_bit(p) is true.
C15_SeqReadAgreesWithGetBit ==
    [][(op' = "seq_read" /\ Pos(Self) < len)
          => ret' \in BitVals(Self, Pos(Self))]_vars

\* C16: only seq_read, read_byte, reset_seq_read and set_read_position move
\* the cursor, and pop_bit when the cursor is at or beyond the new length;
\* pop_bit leaves it alone when it is below the new length.
C16_CursorFrame ==
    [][LET kept == byte_idx' = byte_idx /\ bit_idx' = bit_idx
       IN /\ op' \notin {"seq_read", "read_byte", "reset_seq_read",
                         "set_read_position", "pop_bit", "clone"} => kept
          /\ (op' = "pop_bit" /\ Pos(Self) < len') => kept]_vars

\* C17: a.union(b) and a.diff(b) leave every bit of a at an index
\* >= length_bits(b) as it was.
C17_OperandTailIgnored ==
    [][op' \in {"union", "diff"}
          => \A i \in (Others[arg'[1]].len)..(len - 1) :
                 BitVals(SelfNext, i) \cap BitVals(Self, i) # {}]_vars

\* C18: when set_bit, push_bit or push_byte enlarges the region, needing m
\* more bytes, the new capacity is max(2 * old, old + m), or max(m, 1) from
\* an empty region.
C18_GrowthDoubles ==
    [][(op' \in {"set_bit", "push_bit", "push_byte"} /\ cap' > cap)
          => LET m == IF op' = "set_bit"
                      THEN (arg'[1] \div 8) - cap + 1
                      ELSE 1
             IN cap' = IF cap = 0 THEN Max(m, 1)
                                  ELSE Max(2 * cap, cap + m)]_vars

\* C19: pop_full_byte(), when length_bits >= 8 is a multiple of 8, returns
\* the byte at index length_bits / 8 - 1 and takes 8 off the length,
\* whatever the cursor; otherwise it returns nothing and changes neither
\* the length nor the cursor.
C19_PopFullByteByLength ==
    [][op' = "pop_full_byte"
          => IF len >= 8 /\ len % 8 = 0
             THEN /\ \E u \in Uninit : ret' = Load(Self, (len \div 8) - 1, u)
                  /\ len' = len - 8
             ELSE /\ ret' = None
                  /\ len' = len
                  /\ byte_idx' = byte_idx /\ bit_idx' = bit_idx]_vars

====
